---- MODULE Spec2Model ----
(***************************************************************************)
(* A model of the recursive-descent JSON parser of src/src/parser.rs.      *)
(*                                                                         *)
(* The input text is a sequence of characters (one-character strings; the  *)
(* two non-ASCII characters of the model are written U00A0 and U00E9).     *)
(* The parser is the state machine of its call stack: one frame per active *)
(* function, one action per straight-line piece of a function between two  *)
(* calls or loop iterations.  `index` is the parser's cursor, counted in   *)
(* characters by chars().nth(index) and used as a byte offset by the       *)
(* slices json_string[a..b] and by json_string.len().                      *)
(***************************************************************************)
EXTENDS Integers, Sequences, FiniteSets, TLC

VARIABLES input, index, stack, ret, outcome, earlier

vars == <<input, index, stack, ret, outcome, earlier>>

(***************************************************************************)
(* Bounds of the model.                                                    *)
(***************************************************************************)
\* longest text over the general alphabet
MaxLen == 3
\* longest numeric run placed inside [ ]
MaxRun == 4
\* longest string body placed between quotes
MaxBody == 3
\* most members or elements of a generated container
MaxWidth == 2

(***************************************************************************)
(* Characters.                                                             *)
(***************************************************************************)
\* Option<char>::None, the answer of chars().nth(i) past the end
None == "None"

\* U+00A0 NO-BREAK SPACE (White_Space, two bytes in UTF-8)
NBSP == "U00A0"

\* U+00E9 (not White_Space, two bytes in UTF-8)
EACUTE == "U00E9"

NonAscii == {NBSP, EACUTE}

Utf8Len(c) == IF c \in NonAscii THEN 2 ELSE 1

IsWhitespace(c) == c \in {" ", "\n", "\t", "\r", NBSP}

AsciiDigits == {"0", "1", "2", "3", "4", "5", "6", "7", "8", "9"}

IsAsciiDigit(c) == c \in AsciiDigits

DigitVal(c) ==
    CASE c = "0" -> 0 [] c = "1" -> 1 [] c = "2" -> 2 [] c = "3" -> 3
      [] c = "4" -> 4 [] c = "5" -> 5 [] c = "6" -> 6 [] c = "7" -> 7
      [] c = "8" -> 8 [] c = "9" -> 9

(***************************************************************************)
(* The text as Rust sees it: characters by position, bytes by offset.      *)
(***************************************************************************)
\* self.json_string.chars().nth(i)
CharAt(i) == IF i >= 0 /\ i < Len(input) THEN input[i + 1] ELSE None

RECURSIVE ByteOffset(_, _)
\* the byte offset of the k-th character (k = Len(s): the byte length)
ByteOffset(s, k) ==
    IF k = 0 THEN 0 ELSE ByteOffset(s, k - 1) + Utf8Len(s[k])

\* self.json_string.len()
ByteLen(s) == ByteOffset(s, Len(s))

IsCharBoundary(s, b) == \E k \in 0..Len(s) : ByteOffset(s, k) = b

CharOfByte(s, b) == CHOOSE k \in 0..Len(s) : ByteOffset(s, k) = b

\* &s[a..b] panics unless a <= b <= len and both lie on character boundaries
SliceOk(s, a, b) ==
    /\ a <= b
    /\ b <= ByteLen(s)
    /\ IsCharBoundary(s, a)
    /\ IsCharBoundary(s, b)

Slice(s, a, b) == SubSeq(s, CharOfByte(s, a) + 1, CharOfByte(s, b))

(***************************************************************************)
(* Values and results.                                                     *)
(***************************************************************************)
\* JsonValue::Object(Vec<(String, JsonValue)>)
Object(members) == [kind |-> "Object", members |-> members]

\* JsonValue::Array(Vec<JsonValue>)
Array(items) == [kind |-> "Array", items |-> items]

\* JsonValue::String(String)
String(chars) == [kind |-> "String", chars |-> chars]

\* JsonValue::Number(f64); num is the decimal <<m, e>> for m * 10^e, m not a
\* multiple of 10 (zero is <<0, 0>>: f64 equality does not tell -0.0 from 0.0)
Number(num) == [kind |-> "Number", num |-> num]

\* JsonValue::Boolean(bool)
Boolean(b) == [kind |-> "Boolean", b |-> b]

\* JsonValue::Null
Null == [kind |-> "Null"]

Ok(v) == [tag |-> "Ok", val |-> v]

\* Error::UnexcpectedCharacters(), raised at source line `at`
UnexcpectedCharacters(at) ==
    [tag |-> "Err", variant |-> "UnexcpectedCharacters", msg |-> "", at |-> at]

\* Error::InvalidInput(msg), raised at source line `at`
InvalidInput(msg, at) ==
    [tag |-> "Err", variant |-> "InvalidInput", msg |-> msg, at |-> at]

\* the thread panicked (an unwrap of None, a slice off a character boundary)
Panic(at) == [tag |-> "Panic", at |-> at]

Running == [tag |-> "Running"]

NoResult == [tag |-> "NoResult"]

(***************************************************************************)
(* str::parse::<i64>() and str::parse::<f64>() on a slice of the text.     *)
(***************************************************************************)
RECURSIVE TakeDigits(_, _)
\* the first position at or after i that holds no ASCII digit
TakeDigits(s, i) ==
    IF i <= Len(s) /\ IsAsciiDigit(s[i]) THEN TakeDigits(s, i + 1) ELSE i

RECURSIVE DigitsValueTo(_, _)
\* the number written by the first k digits of s
DigitsValueTo(s, k) ==
    IF k = 0 THEN 0 ELSE 10 * DigitsValueTo(s, k - 1) + DigitVal(s[k])

DigitsValue(s) == DigitsValueTo(s, Len(s))

RECURSIVE Normalize(_, _)
Normalize(m, e) ==
    IF m = 0 THEN <<0, 0>>
    ELSE IF m % 10 = 0 THEN Normalize(m \div 10, e + 1)
    ELSE <<m, e>>

\* <i64 as FromStr>::from_str: an optional sign, then one or more digits.
\* (A run of 19 digits or more can leave the i64 range and fail; the texts of
\* this model hold at most MaxRun + 1 digits, far below it.)
ParseI64(s) ==
    LET n  == Len(s)
        p0 == IF n > 0 /\ s[1] \in {"+", "-"} THEN 2 ELSE 1
        p1 == TakeDigits(s, p0)
        digits == SubSeq(s, p0, n)
        v  == DigitsValue(digits)
    IN  IF n = 0 \/ p0 > n \/ p1 # n + 1
        THEN [ok |-> FALSE, val |-> 0]
        ELSE [ok |-> TRUE, val |-> IF s[1] = "-" THEN 0 - v ELSE v]

\* <f64 as FromStr>::from_str (core::num::dec2flt):
\* sign? (digits ['.' digits*] | '.' digits) [(e|E) sign? digits].
\* (Every decimal of this model is short enough to be a finite f64 of its own.)
ParseF64(s) ==
    LET n  == Len(s)
        p0 == IF n > 0 /\ s[1] \in {"+", "-"} THEN 2 ELSE 1
        p1 == TakeDigits(s, p0)
        hasPoint == p1 <= n /\ s[p1] = "."
        p2 == IF hasPoint THEN TakeDigits(s, p1 + 1) ELSE p1
        nInt  == p1 - p0
        nFrac == IF hasPoint THEN p2 - (p1 + 1) ELSE 0
        hasExp == p2 <= n /\ s[p2] \in {"e", "E"}
        p3 == IF hasExp /\ p2 + 1 <= n /\ s[p2 + 1] \in {"+", "-"}
              THEN p2 + 2 ELSE p2 + 1
        p4 == IF hasExp THEN TakeDigits(s, p3) ELSE p2
        expNeg == hasExp /\ p2 + 1 <= n /\ s[p2 + 1] = "-"
        expVal == IF hasExp THEN DigitsValue(SubSeq(s, p3, p4 - 1)) ELSE 0
        mant == DigitsValue(SubSeq(s, p0, p1 - 1) \o
                            (IF hasPoint THEN SubSeq(s, p1 + 1, p2 - 1) ELSE <<>>))
        e  == (IF expNeg THEN 0 - expVal ELSE expVal) - nFrac
        m  == IF s[1] = "-" THEN 0 - mant ELSE mant
    IN  IF \/ n = 0
           \/ p0 > n
           \/ nInt + nFrac = 0
           \/ (hasExp /\ p4 = p3)
           \/ p4 # n + 1
        THEN [ok |-> FALSE, num |-> <<0, 0>>]
        ELSE [ok |-> TRUE, num |-> Normalize(m, e)]

\* `num as f64` of an i64
I64AsF64(v) == Normalize(v, 0)

\* fn is_valid_escape(c: char) -> bool
is_valid_escape(c) == c \in {"\"", "\\", "/", "b", "f", "n", "r", "t", "u"}

(***************************************************************************)
(* The call stack.                                                         *)
(***************************************************************************)
\* a function's activation: its position and its locals
\* (start, has_dot of parse_number; start of parse_string; result and key of
\* parse_object; result of parse_array and of parse).  mark is history: the
\* cursor at the activation's latest test of its member or element loop.
Frame(fn, pc) ==
    [fn |-> fn, pc |-> pc, start |-> 0, has_dot |-> FALSE,
     result |-> <<>>, key |-> <<>>, mark |-> -1]

Top == stack[Len(stack)]

At(fn, pc) ==
    /\ outcome = Running
    /\ Len(stack) > 0
    /\ Top.fn = fn
    /\ Top.pc = pc

\* the stack with its top frame replaced
WithTop(f) == [stack EXCEPT ![Len(stack)] = f]

\* stay in the function
Goto(f) ==
    /\ stack' = WithTop(f)
    /\ UNCHANGED <<ret, outcome>>

\* call fn, to come back into frame f
Call(f, fn) ==
    /\ stack' = Append(WithTop(f), Frame(fn, "entry"))
    /\ ret' = NoResult
    /\ UNCHANGED outcome

\* return r to the caller; parse's return ends the run
Return(r) ==
    /\ stack' = SubSeq(stack, 1, Len(stack) - 1)
    /\ IF Len(stack) = 1
       THEN outcome' = r /\ ret' = NoResult
       ELSE ret' = r /\ UNCHANGED outcome

\* a panic unwinds the whole stack
Abort(at) ==
    /\ stack' = <<>>
    /\ ret' = NoResult
    /\ outcome' = Panic(at)

\* fn consume(&mut self, ch: char): the cursor after it
consume(ch, i) == IF CharAt(i) = ch THEN i + 1 ELSE i

(***************************************************************************)
(* fn consume_whitespace(&mut self)                                        *)
(***************************************************************************)
\* consume_whitespace without its `self.index += 1`
WhitespaceStepStuck ==
    /\ At("consume_whitespace", "entry")
    /\ UNCHANGED <<input, earlier>>
    /\ IF CharAt(index) # None /\ IsWhitespace(CharAt(index))
       THEN /\ index' = index
            /\ UNCHANGED <<stack, ret, outcome>>
       ELSE /\ index' = index
            /\ Return(NoResult)

\* one pass of its loop: over a whitespace character, or out
WhitespaceStep ==
    /\ At("consume_whitespace", "entry")
    /\ UNCHANGED <<input, earlier>>
    /\ IF CharAt(index) # None /\ IsWhitespace(CharAt(index))
       THEN /\ index' = index + 1
            /\ UNCHANGED <<stack, ret, outcome>>
       ELSE /\ index' = index
            /\ Return(NoResult)

(***************************************************************************)
(* pub fn parse(&mut self) -> Result<JsonValue>                            *)
(***************************************************************************)
\* fn sanity_check(&self) -> Result<()>
sanity_check ==
    LET n == Len(input)
    IN  IF n = 0 THEN InvalidInput("Invalid input", 251)
        ELSE IF input[1] \in {"{", "["}
        THEN IF n >= 2 /\ input[n - 1] = "," /\ input[n] \in {"}", "]"}
             THEN InvalidInput("Trailing comma detected", 258)
             ELSE Ok(<<>>)
        ELSE InvalidInput("Json should be an object or array", 263)

ParseStart ==
    /\ At("parse", "entry")
    /\ Call([Top EXCEPT !.pc = "sanity"], "consume_whitespace")
    /\ UNCHANGED <<input, index, earlier>>

ParseSanity ==
    /\ At("parse", "sanity")
    /\ UNCHANGED <<input, index, earlier>>
    /\ IF sanity_check.tag = "Err"
       THEN Return(sanity_check)
       ELSE Call([Top EXCEPT !.pc = "value"], "parse_value")

ParseValueDone ==
    /\ At("parse", "value")
    /\ UNCHANGED <<input, index, earlier>>
    /\ IF ret.tag = "Err"
       THEN Return(ret)
       ELSE Call([Top EXCEPT !.pc = "end", !.result = <<ret.val>>],
                 "consume_whitespace")

ParseEnd ==
    /\ At("parse", "end")
    /\ UNCHANGED <<input, index, earlier>>
    /\ IF index # ByteLen(input)
       THEN Return(UnexcpectedCharacters(35))
       ELSE Return(Ok(Top.result[1]))

(***************************************************************************)
(* fn parse_value(&mut self) -> Result<JsonValue>                          *)
(***************************************************************************)
ValueStart ==
    /\ At("parse_value", "entry")
    /\ Call([Top EXCEPT !.pc = "dispatch"], "consume_whitespace")
    /\ UNCHANGED <<input, index, earlier>>

ValueDispatch ==
    /\ At("parse_value", "dispatch")
    /\ UNCHANGED <<input, index, earlier>>
    /\ LET c == CharAt(index)
           f == [Top EXCEPT !.pc = "return"]
       IN  CASE c = "{" -> Call(f, "parse_object")
             [] c = "[" -> Call(f, "parse_array")
             [] c = "\"" -> Call(f, "parse_string")
             [] IsAsciiDigit(c) \/ c = "-" -> Call(f, "parse_number")
             [] c \in {"t", "f"} -> Call(f, "parse_boolean")
             [] c = "n" -> Call(f, "parse_null")
             [] OTHER -> Return(UnexcpectedCharacters(53))

ValueReturn ==
    /\ At("parse_value", "return")
    /\ UNCHANGED <<input, index, earlier>>
    /\ Return(ret)

(***************************************************************************)
(* fn parse_object(&mut self) -> Result<JsonValue>                         *)
(***************************************************************************)
ObjectOpen ==
    /\ At("parse_object", "entry")
    /\ index' = consume("{", index)
    /\ Goto([Top EXCEPT !.pc = "loop"])
    /\ UNCHANGED <<input, earlier>>

\* the loop test, and the code after the loop
ObjectLoop ==
    /\ At("parse_object", "loop")
    /\ UNCHANGED <<input, earlier>>
    /\ IF CharAt(index) # "}"
       THEN /\ index' = index
            /\ Call([Top EXCEPT !.pc = "key", !.mark = index],
                    "consume_whitespace")
       ELSE /\ index' = consume("}", index)
            /\ Return(Ok(Object(Top.result)))

ObjectKey ==
    /\ At("parse_object", "key")
    /\ Call([Top EXCEPT !.pc = "after_key"], "parse_string")
    /\ UNCHANGED <<input, index, earlier>>

ObjectAfterKey ==
    /\ At("parse_object", "after_key")
    /\ UNCHANGED <<input, earlier>>
    /\ IF ret.tag = "Err"
       THEN /\ index' = index
            /\ Return(ret)
       ELSE IF ret.val.kind # "String"
       THEN /\ index' = index
            /\ Return(UnexcpectedCharacters(66))
       ELSE /\ index' = IF ret.val.chars = <<>> THEN consume("\"", index)
                        ELSE index
            /\ Call([Top EXCEPT !.pc = "colon", !.key = ret.val.chars],
                    "consume_whitespace")

\* fn expect(&mut self, expected: char) -> Result<()>
expect(expected) ==
    IF CharAt(index) = expected THEN Ok(<<>>)
    ELSE InvalidInput("Expected: : and not found", 242)

ObjectColon ==
    /\ At("parse_object", "colon")
    /\ UNCHANGED <<input, earlier>>
    /\ IF expect(":").tag = "Err"
       THEN /\ index' = index
            /\ Return(expect(":"))
       ELSE /\ index' = consume(":", index)
            /\ Call([Top EXCEPT !.pc = "value"], "consume_whitespace")

ObjectValue ==
    /\ At("parse_object", "value")
    /\ Call([Top EXCEPT !.pc = "after_value"], "parse_value")
    /\ UNCHANGED <<input, index, earlier>>

\* result.push((key, value))
PushMember(result, key, value) == Append(result, <<key, value>>)

ObjectAfterValue ==
    /\ At("parse_object", "after_value")
    /\ UNCHANGED <<input, earlier>>
    /\ IF ret.tag = "Err"
       THEN /\ index' = index
            /\ Return(ret)
       ELSE /\ index' = consume("\"", index)
            /\ Call([Top EXCEPT !.pc = "separator",
                                !.result = PushMember(@, Top.key, ret.val)],
                    "consume_whitespace")

ObjectSeparator ==
    /\ At("parse_object", "separator")
    /\ UNCHANGED <<input, earlier>>
    /\ IF CharAt(index) = ","
       THEN /\ index' = consume("\n", consume(",", index))
            /\ Call([Top EXCEPT !.pc = "loop"], "consume_whitespace")
       ELSE IF CharAt(index) # "}"
       THEN /\ index' = index
            /\ Return(InvalidInput("Expected '}' or ','", 91))
       ELSE /\ index' = index
            /\ Call([Top EXCEPT !.pc = "loop"], "consume_whitespace")

(***************************************************************************)
(* fn parse_array(&mut self) -> Result<JsonValue>                          *)
(***************************************************************************)
ArrayOpen ==
    /\ At("parse_array", "entry")
    /\ index' = consume("[", index)
    /\ Goto([Top EXCEPT !.pc = "loop"])
    /\ UNCHANGED <<input, earlier>>

\* the loop test, and the code after the loop
ArrayLoop ==
    /\ At("parse_array", "loop")
    /\ UNCHANGED <<input, earlier>>
    /\ IF CharAt(index) # "]"
       THEN /\ index' = index
            /\ Call([Top EXCEPT !.pc = "after_value", !.mark = index],
                    "parse_value")
       ELSE /\ index' = consume("]", index)
            /\ Return(Ok(Array(Top.result)))

\* result.push(value)
PushElement(result, value) == Append(result, value)

ArrayAfterValue ==
    /\ At("parse_array", "after_value")
    /\ UNCHANGED <<input, index, earlier>>
    /\ IF ret.tag = "Err"
       THEN Return(ret)
       ELSE Call([Top EXCEPT !.pc = "separator",
                             !.result = PushElement(@, ret.val)],
                 "consume_whitespace")

ArraySeparator ==
    /\ At("parse_array", "separator")
    /\ UNCHANGED <<input, earlier>>
    /\ IF CharAt(index) = ","
       THEN /\ index' = consume(",", index)
            /\ Goto([Top EXCEPT !.pc = "loop"])
       ELSE IF CharAt(index) # "]"
       THEN /\ index' = index
            /\ Return(InvalidInput("Expected ']' or ','", 115))
       ELSE /\ index' = index
            /\ Goto([Top EXCEPT !.pc = "loop"])

(***************************************************************************)
(* fn parse_boolean, fn parse_null                                         *)
(***************************************************************************)
BooleanStart ==
    /\ At("parse_boolean", "entry")
    /\ Call([Top EXCEPT !.pc = "literal"], "consume_whitespace")
    /\ UNCHANGED <<input, index, earlier>>

BooleanLiteral ==
    /\ At("parse_boolean", "literal")
    /\ UNCHANGED <<input, earlier>>
    /\ IF CharAt(index) = "t"
       THEN /\ index' = index + 4
            /\ Return(Ok(Boolean(TRUE)))
       ELSE IF CharAt(index) = "f"
       THEN /\ index' = index + 5
            /\ Return(Ok(Boolean(FALSE)))
       ELSE /\ index' = index
            /\ Return(InvalidInput("Invalid boolean value", 135))

NullLiteral ==
    /\ At("parse_null", "entry")
    /\ UNCHANGED <<input, earlier>>
    /\ IF CharAt(index) = "n"
       THEN /\ index' = index + 4
            /\ Return(Ok(Null))
       ELSE /\ index' = index
            /\ Return(InvalidInput("Invalid null value", 219))

(***************************************************************************)
(* fn parse_number(&mut self) -> Result<JsonValue>                         *)
(***************************************************************************)
NumberStart ==
    /\ At("parse_number", "entry")
    /\ Goto([Top EXCEPT !.pc = "scan", !.start = index, !.has_dot = FALSE])
    /\ UNCHANGED <<input, index, earlier>>

\* `c == '.' || c == 'e'`: the characters that set has_dot
SetsHasDot(c) == c = "." \/ c = "e"

\* the characters the scan does not break at
InNumberRun(c) == IsAsciiDigit(c) \/ c \in {"e", "E", "-", "+"}

\* one pass of the scan loop
NumberScan ==
    /\ At("parse_number", "scan")
    /\ UNCHANGED <<input, earlier>>
    /\ LET c == CharAt(index)
       IN  IF c = None
           THEN /\ index' = index
                /\ Goto([Top EXCEPT !.pc = "convert"])
           ELSE IF SetsHasDot(c)
           THEN /\ index' = index + 1
                /\ Goto([Top EXCEPT !.has_dot = TRUE])
           ELSE IF ~InNumberRun(c)
           THEN /\ index' = index
                /\ Goto([Top EXCEPT !.pc = "convert"])
           ELSE /\ index' = index + 1
                /\ Goto(Top)

\* the leading-zero test of the integer path
StartsWithZero(start, number_str) ==
    CharAt(start) = "0" /\ ByteLen(number_str) > 1

\* the code after the scan: the slice and its conversion
NumberConvert ==
    /\ At("parse_number", "convert")
    /\ UNCHANGED <<input, index, earlier>>
    /\ IF ~SliceOk(input, Top.start, index)
       THEN Abort(153)
       ELSE \E number_str \in {Slice(input, Top.start, index)} :
                IF Top.has_dot
                THEN IF ParseF64(number_str).ok
                     THEN Return(Ok(Number(ParseF64(number_str).num)))
                     ELSE Return(InvalidInput("Invalid number", 158))
                ELSE IF StartsWithZero(Top.start, number_str)
                THEN Return(InvalidInput("Cant start with 0", 162))
                ELSE IF ParseI64(number_str).ok
                THEN Return(Ok(Number(I64AsF64(ParseI64(number_str).val))))
                ELSE Return(InvalidInput("Invalid number", 167))

(***************************************************************************)
(* fn parse_string(&mut self) -> Result<JsonValue>                         *)
(***************************************************************************)
StringOpen ==
    /\ At("parse_string", "entry")
    /\ index' = consume("\"", index)
    /\ Call([Top EXCEPT !.pc = "start"], "consume_whitespace")
    /\ UNCHANGED <<input, earlier>>

StringStart ==
    /\ At("parse_string", "start")
    /\ Goto([Top EXCEPT !.pc = "scan", !.start = index])
    /\ UNCHANGED <<input, index, earlier>>

\* one pass of the scan loop, and the code after the loop
StringScan ==
    /\ At("parse_string", "scan")
    /\ UNCHANGED <<input, earlier>>
    /\ LET c == CharAt(index)
           next_charachter == CharAt(index + 1)
       IN  IF c = None
           THEN /\ index' = index
                /\ Return(InvalidInput("Unterminated string", 205))
           ELSE IF c = "\\"
           THEN IF next_charachter = None
                THEN /\ index' = index + 1
                     /\ Abort(182)
                ELSE IF ~is_valid_escape(next_charachter)
                THEN /\ index' = index + 1
                     /\ Return(InvalidInput("Invalid escape_char", 183))
                ELSE /\ index' = index + 2
                     /\ Goto(Top)
           ELSE IF c = "\t"
           THEN /\ index' = index + 1
                /\ Return(InvalidInput("Tab character in string", 191))
           ELSE IF c = "\n"
           THEN /\ index' = index + 1
                /\ Return(InvalidInput("Line break in string", 195))
           ELSE IF c = "\""
           THEN /\ index' = index + 1
                /\ IF SliceOk(input, Top.start, index)
                   THEN Return(Ok(String(Slice(input, Top.start, index))))
                   ELSE Abort(200)
           ELSE /\ index' = index + 1
                /\ Goto(Top)

(***************************************************************************)
(* The texts the parser is run on.                                         *)
(***************************************************************************)
\* every text over alphabet A of at most n characters
Texts(A, n) == UNION {[1..k -> A] : k \in 0..n}

GeneralAlphabet ==
    {"[", "]", "{", "}", "\"", ":", ",", " ", "1", "t", "\\", "a", NBSP, EACUTE}

GeneralTexts == Texts(GeneralAlphabet, MaxLen)

NumberAlphabet == {"0", "1", ".", "e", "E", "-", "+"}

\* [run] for every run of number characters
NumberTexts ==
    {<<"[">> \o run \o <<"]">> : run \in Texts(NumberAlphabet, MaxRun) \ {<<>>}}

BodyAlphabet == {"a", " ", "\t", "\n", "\\", "n"}

\* ["body"] and {"body":1} for every string body
StringTexts ==
    {<<"[", "\"">> \o body \o <<"\"", "]">> : body \in Texts(BodyAlphabet, MaxBody)}
    \cup
    {<<"{", "\"">> \o body \o <<"\"", ":", "1", "}">> :
        body \in Texts(BodyAlphabet, MaxBody)}

(***************************************************************************)
(* Documents written from a tree by the JSON grammar: a tree is a value    *)
(* whose scalars carry the text they are written as.                       *)
(***************************************************************************)
TStr(body) == [kind |-> "String", text |-> body]

TNum(lit) == [kind |-> "Number", text |-> lit]

TTrue == [kind |-> "Boolean", text |-> <<"t", "r", "u", "e">>]

TFalse == [kind |-> "Boolean", text |-> <<"f", "a", "l", "s", "e">>]

TNull == [kind |-> "Null", text |-> <<"n", "u", "l", "l">>]

\* a literal cut to its first letter: no JSON, but one element written
TCutFalse == [kind |-> "Boolean", text |-> <<"f">>]

TArr(items) == [kind |-> "Array", items |-> items]

TObj(members) == [kind |-> "Object", members |-> members]

RECURSIVE Written(_, _)
\* the text of tree t, with the whitespace sp at every place the grammar
\* allows whitespace inside a container
Written(t, sp) ==
    LET RECURSIVE Items(_, _)
        Items(items, k) ==
            IF k > Len(items) THEN <<>>
            ELSE (IF k > 1 THEN <<",">> \o sp ELSE <<>>)
                 \o Written(items[k], sp) \o Items(items, k + 1)
        RECURSIVE Members(_, _)
        Members(members, k) ==
            IF k > Len(members) THEN <<>>
            ELSE (IF k > 1 THEN <<",">> \o sp ELSE <<>>)
                 \o <<"\"">> \o members[k][1] \o <<"\"", ":">> \o sp
                 \o Written(members[k][2], sp) \o Members(members, k + 1)
    IN  CASE t.kind = "Array" ->
                <<"[">> \o sp \o Items(t.items, 1) \o sp \o <<"]">>
          [] t.kind = "Object" ->
                <<"{">> \o sp \o Members(t.members, 1) \o sp \o <<"}">>
          [] t.kind = "String" -> <<"\"">> \o t.text \o <<"\"">>
          [] OTHER -> t.text

RECURSIVE IsJson(_)
\* every literal of the tree is spelled in full
IsJson(t) ==
    CASE t.kind = "Array" -> \A k \in 1..Len(t.items) : IsJson(t.items[k])
      [] t.kind = "Object" -> \A k \in 1..Len(t.members) : IsJson(t.members[k][2])
      [] OTHER -> t # TCutFalse

\* what a container of a generated tree holds
Elements ==
    {TStr(<<"a">>), TStr(<<" ", "a">>), TNum(<<"1">>), TNum(<<"1", "E", "1">>),
     TTrue, TCutFalse, TNull, TArr(<<>>), TObj(<<>>)}

Keys == {<<"a">>, <<"b">>}

Trees ==
    {TArr(items) : items \in Texts(Elements, MaxWidth)}
    \cup
    {TObj(members) : members \in Texts(Keys \X Elements, MaxWidth)}

\* a tree written compactly, with a space at every inner place, with a space
\* before it, with a space after it
Writings(t) ==
    {Written(t, <<>>), Written(t, <<" ">>),
     <<" ">> \o Written(t, <<>>), Written(t, <<>>) \o <<" ">>}

\* each generated document with the tree it writes
Generated == UNION {{[tree |-> t, doc |-> d] : d \in Writings(t)} : t \in Trees}

GeneratedTexts == {g.doc : g \in Generated}

\* the trees whose documents are parsed one after the other
PairTrees ==
    {TArr(<<TStr(<<"a">>)>>), TArr(<<TStr(<<" ", "a">>)>>),
     TArr(<<TNum(<<"1">>)>>), TArr(<<TTrue>>), TArr(<<TNull>>),
     TArr(<<TArr(<<>>)>>), TArr(<<>>), TObj(<<>>),
     TObj(<<<<<<"a">>, TNum(<<"1">>)>>>>), TObj(<<<<<<"b">>, TNum(<<"1">>)>>>>)}

PairTexts == {Written(t, <<>>) : t \in PairTrees}

Inputs == GeneralTexts \cup NumberTexts \cup StringTexts \cup GeneratedTexts

(***************************************************************************)
(* The specification.                                                      *)
(***************************************************************************)
\* JsonParser::new(json_string)
Init ==
    /\ input \in Inputs
    /\ index = 0
    /\ stack = <<Frame("parse", "entry")>>
    /\ ret = NoResult
    /\ outcome = Running
    /\ earlier = <<>>

\* JsonParser::new on a second document, the caller keeping the first result
New ==
    /\ outcome # Running
    /\ earlier = <<>>
    /\ input \in PairTexts
    /\ \E d \in PairTexts :
          /\ input' = d
          /\ earlier' = <<[input |-> input, outcome |-> outcome]>>
    /\ index' = 0
    /\ stack' = <<Frame("parse", "entry")>>
    /\ ret' = NoResult
    /\ outcome' = Running

Next ==
    \/ New
    \/ WhitespaceStep
    \/ ParseStart
    \/ ParseSanity
    \/ ParseValueDone
    \/ ParseEnd
    \/ ValueStart
    \/ ValueDispatch
    \/ ValueReturn
    \/ ObjectOpen
    \/ ObjectLoop
    \/ ObjectKey
    \/ ObjectAfterKey
    \/ ObjectColon
    \/ ObjectValue
    \/ ObjectAfterValue
    \/ ObjectSeparator
    \/ ArrayOpen
    \/ ArrayLoop
    \/ ArrayAfterValue
    \/ ArraySeparator
    \/ BooleanStart
    \/ BooleanLiteral
    \/ NullLiteral
    \/ NumberStart
    \/ NumberScan
    \/ NumberConvert
    \/ StringOpen
    \/ StringStart
    \/ StringScan

Spec == Init /\ [][Next]_vars

\* documents nested two deep, written with whitespace inside
TermTrees ==
    {TObj(<<<<<<"a">>, TArr(<<TNum(<<"1">>), TStr(<<"b">>)>>)>>,
            <<<<"c">>, TNum(<<"-", "1", ".", "0", "e", "1">>)>>>>),
     TArr(<<TObj(<<<<<<>>, TFalse>>>>), TArr(<<TCutFalse>>), TNull>>)}

\* the texts of the runs whose end is checked
TermTexts ==
    GeneralTexts \cup StringTexts \cup PairTexts
    \cup {Written(t, <<" ">>) : t \in TermTrees}

TermInit ==
    /\ input \in TermTexts
    /\ index = 0
    /\ stack = <<Frame("parse", "entry")>>
    /\ ret = NoResult
    /\ outcome = Running
    /\ earlier = <<>>

\* parse is a sequential function: once called it takes its next step until
\* it returns or panics, nothing else being scheduled
TermSpec == TermInit /\ [][Next]_vars /\ WF_vars(Next)

Done == outcome # Running


(***************************************************************************)
(* The error taxonomy of the specification, in the code's errors.          *)
(***************************************************************************)
IsInvalidInput(o, msgs) ==
    o.tag = "Err" /\ o.variant = "InvalidInput" /\ o.msg \in msgs

NotObjectOrArray(o) ==
    IsInvalidInput(o, {"Invalid input", "Json should be an object or array"})

ExtraCharacters(o) ==
    o.tag = "Err" /\ o.variant = "UnexcpectedCharacters" /\ o.at = 35

LeadingZero(o) == IsInvalidInput(o, {"Cant start with 0"})

TabInString(o) == IsInvalidInput(o, {"Tab character in string"})

NewlineInString(o) == IsInvalidInput(o, {"Line break in string"})

(***************************************************************************)
(* Words of the claims.                                                    *)
(***************************************************************************)
RECURSIVE FirstNonWhitespace(_, _)
\* the first character of s at or after position k that is no whitespace
FirstNonWhitespace(s, k) ==
    IF k > Len(s) THEN None
    ELSE IF IsWhitespace(s[k]) THEN FirstNonWhitespace(s, k + 1)
    ELSE s[k]

RECURSIVE DropLeadingWhitespace(_)
DropLeadingWhitespace(s) ==
    IF Len(s) > 0 /\ IsWhitespace(s[1]) THEN DropLeadingWhitespace(Tail(s))
    ELSE s

RECURSIVE Matches(_, _)
\* value v has the shape of tree t: the same nesting, the same number of
\* members and elements, the same kinds
Matches(v, t) ==
    /\ v.kind = t.kind
    /\ v.kind = "Array" =>
         /\ Len(v.items) = Len(t.items)
         /\ \A k \in 1..Len(t.items) : Matches(v.items[k], t.items[k])
    /\ v.kind = "Object" =>
         /\ Len(v.members) = Len(t.members)
         /\ \A k \in 1..Len(t.members) :
              Matches(v.members[k][2], t.members[k][2])

RECURSIVE Corresponds(_, _)
\* value v holds the members and elements written in tree t, one for one and
\* in order (a key up to the whitespace the string scan skips at its start)
Corresponds(v, t) ==
    /\ v.kind = t.kind
    /\ v.kind = "Array" =>
         /\ Len(v.items) = Len(t.items)
         /\ \A k \in 1..Len(t.items) : Corresponds(v.items[k], t.items[k])
    /\ v.kind = "Object" =>
         /\ Len(v.members) = Len(t.members)
         /\ \A k \in 1..Len(t.members) :
              /\ v.members[k][1] = DropLeadingWhitespace(t.members[k][1])
              /\ Corresponds(v.members[k][2], t.members[k][2])

\* the trees that write the text s
TreesOf(s) == {g.tree : g \in {h \in Generated : h.doc = s}}

\* the body of the string literal of ["body"] or {"body":1}, in a sequence;
\* the empty sequence for any other text
StringBody(s) ==
    LET n == Len(s)
    IN  IF /\ n >= 4
           /\ SubSeq(s, 1, 2) = <<"[", "\"">>
           /\ SubSeq(s, n - 1, n) = <<"\"", "]">>
           /\ \A k \in 3..(n - 2) : s[k] \in BodyAlphabet
        THEN <<SubSeq(s, 3, n - 2)>>
        ELSE IF /\ n >= 7
                /\ SubSeq(s, 1, 2) = <<"{", "\"">>
                /\ SubSeq(s, n - 3, n) = <<"\"", ":", "1", "}">>
                /\ \A k \in 3..(n - 4) : s[k] \in BodyAlphabet
        THEN <<SubSeq(s, 3, n - 4)>>
        ELSE <<>>

\* the raw control character the body holds first, after plain characters
\* only (no backslash before it): None when there is none
RECURSIVE FirstRawControl(_)
FirstRawControl(body) ==
    IF body = <<>> THEN None
    ELSE IF body[1] \in {"\t", "\n"} THEN body[1]
    ELSE IF body[1] = "\\" THEN None
    ELSE FirstRawControl(Tail(body))

\* [0d..] or [-0d..]: an integer literal with a leading zero and more digits
IsLeadingZeroText(s) ==
    LET n == Len(s)
        from == IF n >= 2 /\ s[2] = "-" THEN 3 ELSE 2
    IN  /\ n >= 4
        /\ s[1] = "["
        /\ s[n] = "]"
        /\ n - from >= 2
        /\ s[from] = "0"
        /\ \A k \in from..(n - 1) : IsAsciiDigit(s[k])

\* the activations of parse_object and parse_array
Depth == Cardinality({k \in 1..Len(stack) :
                        stack[k].fn \in {"parse_object", "parse_array"}})

\* the activations of parse_value
ValueDepth == Cardinality({k \in 1..Len(stack) : stack[k].fn = "parse_value"})

Brackets == Cardinality({k \in 1..Len(input) : input[k] \in {"{", "["}})

(***************************************************************************)
(* The claims.                                                             *)
(***************************************************************************)
\* C1: every valid JSON document whose top-level value is an object or an
\* array, with whitespace around it or inside it, parses to Ok with a value
\* of the document's shape.
C1_ValidDocumentParses ==
    Done => \A t \in TreesOf(input) :
                IsJson(t) => outcome.tag = "Ok" /\ Matches(outcome.val, t)

\* C2: parse is total: on every text it returns Ok or Err and never panics.
C2_NeverPanics == outcome.tag \in {"Running", "Ok", "Err"}

\* C3: parse fails with NotObjectOrArray exactly when the first character of
\* the text that is no whitespace is neither { nor [ (none at all included).
C3_NotObjectOrArrayExactly ==
    Done => (NotObjectOrArray(outcome)
               <=> FirstNonWhitespace(input, 1) \notin {"{", "["})

\* C4: once the top-level value is parsed without error, parse fails with
\* ExtraCharacters exactly when a character that is no whitespace is left
\* between the cursor and the end of the text.
C4_ExtraCharactersExactly ==
    (Done /\ (outcome.tag = "Ok" \/ ExtraCharacters(outcome))) =>
        (ExtraCharacters(outcome)
           <=> \E k \in (index + 1)..Len(input) : ~IsWhitespace(input[k]))

\* C5: two valid documents written from distinct trees never parse to equal
\* values.
C5_DistinctDocumentsDistinctValues ==
    (Done /\ earlier # <<>>) =>
        \A t1, t2 \in PairTrees :
            (/\ t1 # t2
             /\ earlier[1].input = Written(t1, <<>>)
             /\ input = Written(t2, <<>>)
             /\ earlier[1].outcome.tag = "Ok"
             /\ outcome.tag = "Ok")
            => earlier[1].outcome.val # outcome.val

\* C6: whenever parse succeeds, every object of the result holds one pair per
\* member written, every array one element per element written, in the
\* order written (duplicate keys kept).
C6_MembersAndElementsKept ==
    (Done /\ outcome.tag = "Ok") =>
        \A t \in TreesOf(input) : Corresponds(outcome.val, t)

\* C7: when the number scan ends, has_dot is set exactly when the run holds
\* a '.', an 'e' or an 'E'.
C7_FlagSetByPointOrExponent ==
    (At("parse_number", "convert") /\ SliceOk(input, Top.start, index)) =>
        (Top.has_dot <=>
            \E k \in 1..Len(Slice(input, Top.start, index)) :
                Slice(input, Top.start, index)[k] \in {".", "e", "E"})

\* C8: an integer literal whose digits start with 0 and go on is rejected
\* with LeadingZero, with or without a minus sign before it.
C8_LeadingZeroRejected ==
    (Done /\ IsLeadingZeroText(input)) => LeadingZero(outcome)

\* C9: a raw tab anywhere in a string literal (key or value) makes parse fail
\* with TabInString, a raw newline with NewlineInString.
C9_RawControlRejected ==
    (Done /\ StringBody(input) # <<>>) =>
        LET c == FirstRawControl(StringBody(input)[1])
        IN  /\ c = "\t" => TabInString(outcome)
            /\ c = "\n" => NewlineInString(outcome)

\* a pass of a scan loop that stays in the loop
ScanPass ==
    /\ \/ At("consume_whitespace", "entry")
       \/ At("parse_number", "scan")
       \/ At("parse_string", "scan")
    /\ Len(stack') = Len(stack)
    /\ stack'[Len(stack)].pc = Top.pc

\* at the test of a member or element loop, the cursor is past the place of
\* the test before
LoopHeadAdvanced ==
    (At("parse_object", "loop") \/ At("parse_array", "loop")) =>
        index > Top.mark

\* C10: parse terminates: every pass of a scan loop that stays in the loop
\* moves the cursor forward, every pass of the member and element loops
\* starts further than the one before, the cursor of a parser never moves
\* back, at most one container is open per { or [ of the text (and one
\* parse_value more than containers), and every run ends.
C10_Terminates ==
    /\ [][ScanPass => index' > index]_vars
    /\ [][index' >= index \/ New]_vars
    /\ []LoopHeadAdvanced
    /\ [](Depth <= Brackets /\ ValueDepth <= Depth + 1)
    /\ (~Done ~> Done)

\* a run that ended well after two passes of the member loop, an element
\* loop inside it, a string scan, a number scan and a whitespace skip
C10_Witness ==
    /\ Done
    /\ outcome.tag = "Ok"
    /\ outcome.val.kind = "Object"
    /\ Len(outcome.val.members) = 2
    /\ outcome.val.members[1][2].kind = "Array"
    /\ outcome.val.members[2][2].kind = "Number"
    /\ \E k \in 1..Len(input) : input[k] = " "

====
